---- MODULE Spec2Model ----
(***************************************************************************)
(* A model of src/video.py: the Flask application with the routes          *)
(* /convert (convert_to_video), /delete (delete_video) and /resize-image.  *)
(*                                                                         *)
(* File names and path strings are sequences of one-character strings.     *)
(* A path of the file system is a sequence of components, each component a *)
(* sequence of characters.  Durations are counted in ticks, TicksPerSecond *)
(* ticks to the second, so that fractional durations are covered.          *)
(***************************************************************************)
EXTENDS Integers, Sequences, FiniteSets, TLC

(***************************************************************************)
(* Bounds of the model.                                                    *)
(***************************************************************************)
MaxLen == 4
MaxImages == 2
MaxDurSec == 10
MaxSide == 8
TicksPerSecond == 2

(***************************************************************************)
(* Strings.                                                                *)
(***************************************************************************)
Alphabet == {"a", ".", "/", "_"}

RECURSIVE StringsUpTo(_)
StringsUpTo(n) ==
    IF n = 0 THEN {<<>>}
    ELSE LET shorter == StringsUpTo(n - 1)
         IN  shorter \cup {Append(s, c) : s \in shorter, c \in Alphabet}

Filenames == StringsUpTo(MaxLen)

\* str.replace(old, new) for one-character old and new
StrReplace(s, old, new) == [i \in 1..Len(s) |-> IF s[i] = old THEN new ELSE s[i]]

\* the pieces of s between the occurrences of sep, empty pieces kept
\* (str.split(sep)); acc is the piece being read
RECURSIVE SplitAcc(_, _, _)
SplitAcc(s, sep, acc) ==
    IF s = <<>> THEN <<acc>>
    ELSE IF Head(s) = sep THEN <<acc>> \o SplitAcc(Tail(s), sep, <<>>)
    ELSE SplitAcc(Tail(s), sep, Append(acc, Head(s)))

SplitKeep(s, sep) == SplitAcc(s, sep, <<>>)

\* str.split(): the whitespace-separated words, no empty word
SplitWords(s) == SelectSeq(SplitKeep(s, " "), LAMBDA w : w # <<>>)

\* sep.join(words)
RECURSIVE StrJoin(_, _)
StrJoin(words, sep) ==
    IF words = <<>> THEN <<>>
    ELSE IF Len(words) = 1 THEN Head(words)
    ELSE Head(words) \o <<sep>> \o StrJoin(Tail(words), sep)

RECURSIVE LStrip(_, _)
LStrip(s, chars) ==
    IF s # <<>> /\ Head(s) \in chars THEN LStrip(Tail(s), chars) ELSE s

RECURSIVE RStrip(_, _)
RStrip(s, chars) ==
    IF s # <<>> /\ s[Len(s)] \in chars
    THEN RStrip(SubSeq(s, 1, Len(s) - 1), chars) ELSE s

\* str.strip(chars)
Strip(s, chars) == RStrip(LStrip(s, chars), chars)

\* the characters _filename_ascii_strip_re ([^A-Za-z0-9_.-]) keeps
SafeChars == {"a", ".", "_"}

\* a sanitizer that returns the name as given
SecureFilenameIdentity(filename) == filename

\* werkzeug.utils.secure_filename on a POSIX system: the path separator
\* becomes a space, the words are joined with "_", every character outside
\* [A-Za-z0-9_.-] is dropped, leading and trailing "." and "_" are stripped
secure_filename(filename) ==
    LET spaced == StrReplace(filename, "/", " ")
        joined == StrJoin(SplitWords(spaced), "_")
        kept   == SelectSeq(joined, LAMBDA c : c \in SafeChars)
    IN  Strip(kept, {".", "_"})

(***************************************************************************)
(* The file system.                                                        *)
(***************************************************************************)
Root == <<>>
Cwd == << <<"app">> >>
UPLOAD_FOLDER == <<"uploads">>
VIDEO_FOLDER == <<"videos">>
UploadDir == Append(Cwd, UPLOAD_FOLDER)
VideoDir == Append(Cwd, VIDEO_FOLDER)

\* os.makedirs(..., exist_ok=True) at start-up; no code creates or removes a
\* directory afterwards
Dirs == {Root, Cwd, UploadDir, VideoDir}

NoPath == << <<"ENOENT">> >>

Parent(p) == IF p = <<>> THEN <<>> ELSE SubSeq(p, 1, Len(p) - 1)

\* the kernel's walk along the components of a path, from directory cur
RECURSIVE Walk(_, _)
Walk(cur, comps) ==
    IF comps = <<>> THEN cur
    ELSE IF cur \notin Dirs THEN NoPath
    ELSE LET c == Head(comps)
             next == IF c = <<>> \/ c = <<".">> THEN cur
                     ELSE IF c = <<".", ".">> THEN Parent(cur)
                     ELSE Append(cur, c)
         IN  Walk(next, Tail(comps))

\* os.path.join(VIDEO_FOLDER, filename), resolved: an absolute filename
\* replaces the folder
VideoPath(filename) ==
    IF filename # <<>> /\ Head(filename) = "/"
    THEN Walk(Root, SplitKeep(filename, "/"))
    ELSE Walk(VideoDir, SplitKeep(filename, "/"))

InVideos(p) == Len(p) = Len(VideoDir) + 1 /\ Parent(p) = VideoDir
InUploads(p) == Len(p) = Len(UploadDir) + 1 /\ Parent(p) = UploadDir

(***************************************************************************)
(* State.                                                                  *)
(***************************************************************************)
VARIABLES
    serving,      \* the module has been executed and requests are served
    resize_image, \* what the module-level name resize_image is bound to
    media,        \* what the media tool does when it probes the audio file:
                  \* anything, or one given answer
    files,        \* the regular files that exist, as absolute paths
    nextUuid,     \* how many uuid.uuid4() values have been drawn
    cpc,          \* convert request -> where it stands in convert_to_video
    creq,         \* convert request -> the JSON body it sent
    cloc,         \* convert request -> the handler's local variables
    cresp,        \* convert request -> the response it got
    cenv,         \* convert request -> what the outside world answered, what
                  \* each image fetch returned and the image paths that
                  \* os.remove was given (history)
    ccreated,     \* convert request -> the files it created (history)
    dpc,          \* delete request -> where it stands in delete_video
    dreq,         \* delete request -> the JSON body it sent
    dloc,         \* delete request -> the handler's local filename
    dresp,        \* delete request -> the response it got
    dremoved,     \* delete request -> the file its os.remove removed (history)
    rpc,          \* where the resize-image request stands in its route
    rreq,         \* the query parameters the resize-image request sent
    rresp,        \* the response the resize-image request got
    img           \* the image file that the even-dimension fixup is given

mvars == <<serving, resize_image, media>>
cvars == <<nextUuid, cpc, creq, cloc, cresp, cenv, ccreated>>
dvars == <<dpc, dreq, dloc, dresp, dremoved>>
rvars == <<rpc, rreq, rresp, img>>
vars == <<serving, resize_image, media, files, nextUuid, cpc, creq, cloc, cresp, cenv,
          ccreated, dpc, dreq, dloc, dresp, dremoved, rpc, rreq, rresp,
          img>>

ConvReqs == {"r1", "r2"}
DelReqs == {"d1", "d2"}

NoResp == [status |-> 0, ret |-> "none"]

\* a query parameter, as request.args holds it: absent, a text that int()
\* does not take, or the decimal text of an integer
NoParam == [kind |-> "missing", value |-> 0]
NoArgs == [width |-> NoParam, height |-> NoParam, url |-> "missing", fetch |-> "none"]

\* an image file: its size when opened, its size as saved
NoImage == [width |-> 0, height |-> 0, saved |-> FALSE, orig |-> <<0, 0>>]
NoBody == [has |-> FALSE, filename |-> <<>>]

\* an existence test that takes every path to exist
ExistsAlways(p) == TRUE

Exists(p) == p \in Dirs \cup files

\* a file test that takes every path for a regular file
IsFileAlways(p) == TRUE

IsFile(p) == p \in files

(***************************************************************************)
(* delete_video, lines 292-346.                                            *)
(***************************************************************************)
DRespond(d, status, ret) ==
    /\ dresp' = [dresp EXCEPT ![d] = [status |-> status, ret |-> ret]]
    /\ dpc' = [dpc EXCEPT ![d] = "done"]

\* lines 304-319: the field check, secure_filename, os.path.join
DeleteStart(d) ==
    /\ serving
    /\ dpc[d] = "idle"
    /\ \E has \in BOOLEAN, f \in Filenames :
          IF ~has
          THEN /\ dreq' = [dreq EXCEPT ![d] = NoBody]
               /\ DRespond(d, 400, "missing")
               /\ dloc' = dloc
          ELSE /\ dreq' = [dreq EXCEPT ![d] = [has |-> TRUE, filename |-> f]]
               /\ dloc' = [dloc EXCEPT ![d] = secure_filename(f)]
               /\ dpc' = [dpc EXCEPT ![d] = "exists"]
               /\ dresp' = dresp
    /\ UNCHANGED <<files, dremoved>>
    /\ UNCHANGED <<mvars, cvars, rvars>>

\* lines 322-326: os.path.exists(video_path)
DeleteExists(d) ==
    /\ dpc[d] = "exists"
    /\ IF ~Exists(VideoPath(dloc[d]))
       THEN DRespond(d, 404, "notfound")
       ELSE dpc' = [dpc EXCEPT ![d] = "isfile"] /\ dresp' = dresp
    /\ UNCHANGED <<files, dreq, dloc, dremoved>>
    /\ UNCHANGED <<mvars, cvars, rvars>>

\* lines 329-333: os.path.isfile(video_path)
DeleteIsFile(d) ==
    /\ dpc[d] = "isfile"
    /\ IF ~IsFile(VideoPath(dloc[d]))
       THEN DRespond(d, 400, "notfile")
       ELSE dpc' = [dpc EXCEPT ![d] = "remove"] /\ dresp' = dresp
    /\ UNCHANGED <<files, dreq, dloc, dremoved>>
    /\ UNCHANGED <<mvars, cvars, rvars>>

\* lines 336-346: os.remove(video_path); it raises when the file is gone or
\* when the system refuses the removal (oserr), and the handler answers 500
DeleteRemove(d) ==
    /\ dpc[d] = "remove"
    /\ \E oserr \in BOOLEAN :
          LET p == VideoPath(dloc[d])
          IN  IF IsFile(p) /\ ~oserr
              THEN /\ files' = files \ {p}
                   /\ dremoved' = [dremoved EXCEPT ![d] = p]
                   /\ DRespond(d, 200, "deleted")
              ELSE /\ UNCHANGED <<files, dremoved>>
                   /\ DRespond(d, 500, "failed")
    /\ UNCHANGED <<dreq, dloc>>
    /\ UNCHANGED <<mvars, cvars, rvars>>

DeleteStep(d) ==
    \/ DeleteStart(d)
    \/ DeleteExists(d)
    \/ DeleteIsFile(d)
    \/ DeleteRemove(d)

(***************************************************************************)
(* Module level, lines 122 and 349-350: the name resize_image is bound to  *)
(* the even-dimension fixup by line 122 and bound again, to the route of   *)
(* /resize-image, by line 350.  Requests are served (line 384) after the   *)
(* whole module has been executed.                                         *)
(***************************************************************************)
LoadModule ==
    /\ ~serving
    /\ resize_image = "normalizer"
    /\ resize_image' = "route"
    /\ serving' = TRUE
    /\ UNCHANGED <<media, files, cvars, dvars, rvars>>

(***************************************************************************)
(* uuid.uuid4(): a value never drawn before.                               *)
(***************************************************************************)
UuidPool == <<"u1", "u2", "u3", "u4", "u5", "u6", "u7", "u8", "u9", "u10",
              "u11", "u12", "u13", "u14", "u15", "u16">>

\* a generator that gives the same value each time
UuidFixed(k) == UuidPool[1]

Uuid(k) == UuidPool[k]

(***************************************************************************)
(* get_audio_duration, lines 96-118.  The diagnostic output of the media   *)
(* tool is a sequence of lines; a line either does not hold the word       *)
(* Duration (other), holds it with a well-formed HH:MM:SS value (duration) *)
(* or holds it with something else (garbled: the split, the float          *)
(* conversion or the unpacking raises).                                    *)
(***************************************************************************)
OtherLine == [kind |-> "other", hours |-> 0, minutes |-> 0, seconds |-> 0]
GarbledLine == [kind |-> "garbled", hours |-> 0, minutes |-> 0, seconds |-> 0]
DurationLine(h, m, s) == [kind |-> "duration", hours |-> h, minutes |-> m, seconds |-> s]

MaxDur == MaxDurSec * TicksPerSecond

ProbeLines ==
    {OtherLine, GarbledLine} \cup {DurationLine(0, 0, s) : s \in 0..MaxDur}

ProbeOutputs ==
    {<<>>} \cup {<<l>> : l \in ProbeLines}
           \cup {<<l1, l2>> : l1 \in ProbeLines, l2 \in ProbeLines}

\* the media tool is left free: it may fail to start and print any output
AnyMedia == [fixed |-> FALSE, started |-> TRUE, stderr |-> <<>>]

\* what the media tool may do on line 108: start or not, and print
MediaAnswers ==
    IF media.fixed
    THEN {[started |-> media.started, stderr |-> media.stderr]}
    ELSE [started : BOOLEAN, stderr : ProbeOutputs]

\* a zero test that lets the duration 0 pass
DurationIsNegative(d) == d < 0

\* line 223: audio_duration == 0
DurationIsZero(d) == d = 0

RECURSIVE get_audio_duration(_)
get_audio_duration(stderr) ==
    IF stderr = <<>> THEN [raised |-> FALSE, value |-> 0]
    ELSE LET line == Head(stderr)
         IN  IF line.kind = "other" THEN get_audio_duration(Tail(stderr))
             ELSE IF line.kind = "garbled" THEN [raised |-> TRUE, value |-> 0]
             ELSE [raised |-> FALSE,
                   value |-> line.hours * 3600 * TicksPerSecond
                             + line.minutes * 60 * TicksPerSecond
                             + line.seconds]

(***************************************************************************)
(* The sequence planner, lines 228-231, and the plan file, lines 244-247.  *)
(***************************************************************************)
SecondsPerImage == 3
PlanEntryDuration == 3

\* list * int
RECURSIVE Repeat(_, _)
Repeat(s, k) == IF k <= 0 THEN <<>> ELSE s \o Repeat(s, k - 1)

\* a repeat count that leaves out the "+ 1"
RepeatCountFloor(audio_duration) ==
    audio_duration \div (SecondsPerImage * TicksPerSecond)

\* a repeat count one too high
RepeatCountExtra(audio_duration) ==
    (audio_duration \div (SecondsPerImage * TicksPerSecond)) + 2

\* line 230: int(audio_duration // 3) + 1
repeat_count(audio_duration) ==
    (audio_duration \div (SecondsPerImage * TicksPerSecond)) + 1

\* a planner that never repeats
PlanImagesAsGiven(image_paths, audio_duration) == image_paths

\* lines 228-231
PlanImages(image_paths, audio_duration) ==
    IF Len(image_paths) * SecondsPerImage * TicksPerSecond < audio_duration
    THEN Repeat(image_paths, repeat_count(audio_duration))
    ELSE image_paths

\* lines 245-247: one "file" line and one "duration" line per image
SequenceText(image_paths) ==
    [k \in 1..Len(image_paths) |->
        [file |-> image_paths[k], duration |-> PlanEntryDuration]]

(***************************************************************************)
(* download_file, lines 146-179.  outcome is what the URL and the disk do: *)
(*   neterror    requests.get raises                                       *)
(*   non200      the status is not 200                                     *)
(*   openerror   status 200, open() raises: no file                        *)
(*   writeerror  status 200, the body breaks off or a write raises: the     *)
(*               file stays, partly written                                *)
(*   image       status 200, the body is written and is a readable image   *)
(*   notimage    status 200, the body is written, no image library reads it*)
(***************************************************************************)
FetchOutcomes ==
    {"neterror", "non200", "openerror", "writeerror", "image", "notimage"}

Written(outcome) == outcome \in {"image", "notimage"}

ImageExtensions == {"jpg", "png", "jpeg", "webp"}

\* line 174, resize_image(file_path), raises: the route of line 350 takes no
\* argument (TypeError); the fixup of line 122 raises when PIL cannot open
\* the file
ResizeImageRaises(outcome) ==
    IF resize_image = "route" THEN TRUE ELSE outcome = "notimage"

download_file(outcome, extension, folder, uuid) ==
    LET file_path == Append(folder, <<uuid, ".", extension>>)
    IN  IF outcome \in {"neterror", "non200"}
        THEN [ret |-> NoPath, made |-> {}, uuids |-> 0]
        ELSE IF outcome = "openerror"
        THEN [ret |-> NoPath, made |-> {}, uuids |-> 1]
        ELSE IF outcome = "writeerror"
        THEN [ret |-> NoPath, made |-> {file_path}, uuids |-> 1]
        ELSE IF extension \in ImageExtensions /\ ResizeImageRaises(outcome)
        THEN [ret |-> NoPath, made |-> {file_path}, uuids |-> 1]
        ELSE [ret |-> file_path, made |-> {file_path}, uuids |-> 1]

(***************************************************************************)
(* convert_to_video, lines 184-287.                                        *)
(***************************************************************************)
NoConvBody == [audio_url |-> FALSE, image_urls |-> FALSE, n |-> 0]

NoLoc == [audio_path |-> NoPath, image_paths |-> <<>>, i |-> 0,
          audio_duration |-> -1, video_path |-> NoPath,
          img_sequence_file |-> NoPath, sequence_text |-> <<>>,
          result |-> "none"]

NoEnv == [audio |-> "none", images |-> <<>>, returned |-> <<>>,
          fetched |-> <<>>, probe |-> "notrun", encoder |-> "notrun",
          cleanup |-> "notrun", attempts |-> <<>>]

\* a response after which the handler starts over
CRespondAndRetry(r, status, ret) ==
    /\ cresp' = [cresp EXCEPT ![r] = [status |-> status, ret |-> ret]]
    /\ cpc' = [cpc EXCEPT ![r] = "audio"]

CRespond(r, status, ret) ==
    /\ cresp' = [cresp EXCEPT ![r] = [status |-> status, ret |-> ret]]
    /\ cpc' = [cpc EXCEPT ![r] = "done"]

\* lines 197-201: the body and the check of its two fields; the body holds
\* n image URLs
ConvertStart(r) ==
    /\ serving
    /\ cpc[r] = "idle"
    /\ \E a \in BOOLEAN, u \in BOOLEAN, n \in 0..MaxImages :
          /\ ~u => n = 0
          /\ creq' = [creq EXCEPT ![r] = [audio_url |-> a, image_urls |-> u, n |-> n]]
          /\ IF ~a \/ ~u
             THEN CRespond(r, 400, "missing")
             ELSE cpc' = [cpc EXCEPT ![r] = "audio"] /\ cresp' = cresp
    /\ UNCHANGED <<mvars, files, nextUuid, cloc, cenv, ccreated, dvars, rvars>>

\* lines 204-207: the audio is fetched; no result ends the request
FetchAudio(r) ==
    /\ cpc[r] = "audio"
    /\ \E o \in FetchOutcomes :
          LET got == download_file(o, "mp3", UploadDir, Uuid(nextUuid + 1))
          IN  /\ files' = files \cup got.made
              /\ nextUuid' = nextUuid + got.uuids
              /\ ccreated' = [ccreated EXCEPT ![r] = @ \cup got.made]
              /\ cenv' = [cenv EXCEPT ![r].audio = o]
              /\ cloc' = [cloc EXCEPT ![r].audio_path = got.ret, ![r].i = 1]
              /\ IF got.ret = NoPath
                 THEN CRespond(r, 400, "noaudio")
                 ELSE cpc' = [cpc EXCEPT ![r] = "images"] /\ cresp' = cresp
    /\ UNCHANGED <<mvars, creq, dvars, rvars>>

\* a list that takes the result in front
PrependIfPath(image_paths, image_path) ==
    IF image_path = NoPath THEN image_paths ELSE <<image_path>> \o image_paths

\* lines 214-215: if image_path: image_paths.append(image_path)
AppendIfPath(image_paths, image_path) ==
    IF image_path = NoPath THEN image_paths ELSE Append(image_paths, image_path)

\* lines 212-215: one image URL is fetched; a result is appended
FetchImage(r) ==
    /\ cpc[r] = "images"
    /\ cloc[r].i <= creq[r].n
    /\ \E o \in FetchOutcomes :
          LET got == download_file(o, "jpg", UploadDir, Uuid(nextUuid + 1))
          IN  /\ files' = files \cup got.made
              /\ nextUuid' = nextUuid + got.uuids
              /\ ccreated' = [ccreated EXCEPT ![r] = @ \cup got.made]
              /\ cenv' = [cenv EXCEPT ![r].images = Append(@, o),
                                       ![r].returned = Append(@, got.ret)]
              /\ cloc' = [cloc EXCEPT
                            ![r].image_paths = AppendIfPath(@, got.ret),
                            ![r].i = @ + 1]
    /\ UNCHANGED <<mvars, cpc, creq, cresp, dvars, rvars>>

\* lines 218-219: after the loop, no image ends the request
CheckImages(r) ==
    /\ cpc[r] = "images"
    /\ cloc[r].i > creq[r].n
    /\ IF cloc[r].image_paths = <<>>
       THEN CRespond(r, 400, "noimages")
       ELSE cpc' = [cpc EXCEPT ![r] = "probe"] /\ cresp' = cresp
    /\ cenv' = [cenv EXCEPT ![r].fetched = cloc[r].image_paths]
    /\ UNCHANGED <<mvars, files, nextUuid, creq, cloc, ccreated, dvars, rvars>>

\* lines 222-224: the probe; the media tool may fail to start and the parse
\* may raise (the exception leaves the handler: status 500), and a zero
\* duration ends the request
ProbeDuration(r) ==
    /\ cpc[r] = "probe"
    /\ \E answer \in MediaAnswers :
          LET res == IF answer.started THEN get_audio_duration(answer.stderr)
                     ELSE [raised |-> TRUE, value |-> 0]
          IN  IF res.raised
              THEN /\ cenv' = [cenv EXCEPT ![r].probe = "raised"]
                   /\ cloc' = cloc
                   /\ CRespond(r, 500, "exception")
              ELSE /\ cenv' = [cenv EXCEPT ![r].probe = "value"]
                   /\ cloc' = [cloc EXCEPT ![r].audio_duration = res.value]
                   /\ IF DurationIsZero(res.value)
                      THEN CRespond(r, 500, "zeroduration")
                      ELSE cpc' = [cpc EXCEPT ![r] = "plan"] /\ cresp' = cresp
    /\ UNCHANGED <<mvars, files, nextUuid, creq, ccreated, dvars, rvars>>

\* lines 228-238: the planner and the two fresh names
PlanSequence(r) ==
    /\ cpc[r] = "plan"
    /\ cloc' = [cloc EXCEPT
                  ![r].image_paths = PlanImages(@, cloc[r].audio_duration),
                  ![r].video_path =
                      Append(VideoDir, <<Uuid(nextUuid + 1), "_output_video.mp4">>),
                  ![r].img_sequence_file =
                      Append(UploadDir, <<Uuid(nextUuid + 2), "_img_sequence.txt">>)]
    /\ nextUuid' = nextUuid + 2
    /\ cpc' = [cpc EXCEPT ![r] = "write"]
    /\ UNCHANGED <<mvars, files, creq, cresp, cenv, ccreated, dvars, rvars>>

\* lines 244-247: the plan file is written; an OSError is not caught by the
\* except clause of line 277, so the finally clause runs and it propagates
WritePlan(r) ==
    /\ cpc[r] = "write"
    /\ \E o \in {"written", "openerror", "writeerror"} :
          LET made == IF o = "openerror" THEN {} ELSE {cloc[r].img_sequence_file}
          IN  /\ files' = files \cup made
              /\ ccreated' = [ccreated EXCEPT ![r] = @ \cup made]
              /\ IF o = "written"
                 THEN /\ cloc' = [cloc EXCEPT ![r].sequence_text =
                                        SequenceText(cloc[r].image_paths)]
                      /\ cpc' = [cpc EXCEPT ![r] = "encode"]
                 ELSE /\ cloc' = [cloc EXCEPT ![r].result = "raise"]
                      /\ cpc' = [cpc EXCEPT ![r] = "rm_audio"]
    /\ UNCHANGED <<mvars, nextUuid, creq, cresp, cenv, dvars, rvars>>

\* lines 264-278: the encoder; exit 0 leaves the video and the result is
\* send_file(video_path); a non-zero exit (CalledProcessError) gives the
\* JSON error, and may leave a partly written video; a tool that cannot be
\* started raises OSError, which propagates
RunEncoder(r) ==
    /\ cpc[r] = "encode"
    /\ \E o \in {"exit0", "nonzero", "oserror"}, partial \in BOOLEAN :
          /\ o # "nonzero" => ~partial
          /\ files' = IF o = "exit0" \/ partial
                      THEN files \cup {cloc[r].video_path} ELSE files
          /\ ccreated' = [ccreated EXCEPT ![r] =
                             IF o = "exit0" \/ partial
                             THEN @ \cup {cloc[r].video_path} ELSE @]
          /\ cenv' = [cenv EXCEPT ![r].encoder = o]
          /\ cloc' = [cloc EXCEPT ![r].result =
                         IF o = "exit0" THEN "video"
                         ELSE IF o = "nonzero" THEN "encerr" ELSE "raise"]
    /\ cpc' = [cpc EXCEPT ![r] = "rm_audio"]
    /\ UNCHANGED <<mvars, nextUuid, creq, cresp, dvars, rvars>>

\* the response once the finally clause has ended without raising
Outcome(r) ==
    IF cloc[r].result = "video" THEN [status |-> 200, ret |-> "video"]
    ELSE IF cloc[r].result = "encerr" THEN [status |-> 500, ret |-> "encerr"]
    ELSE [status |-> 500, ret |-> "exception"]

\* line 282: os.remove(audio_path); when it raises (the file is gone, or the
\* system refuses), the exception leaves the finally clause and replaces
\* the result
RemoveAudio(r) ==
    /\ cpc[r] = "rm_audio"
    /\ \E oserr \in BOOLEAN :
          IF IsFile(cloc[r].audio_path) /\ ~oserr
          THEN /\ files' = files \ {cloc[r].audio_path}
               /\ cloc' = [cloc EXCEPT ![r].i = 1]
               /\ cpc' = [cpc EXCEPT ![r] = "rm_images"]
               /\ UNCHANGED <<cresp, cenv>>
          ELSE /\ files' = files
               /\ cloc' = cloc
               /\ cenv' = [cenv EXCEPT ![r].cleanup = "raised_audio"]
               /\ CRespond(r, 500, "exception")
    /\ UNCHANGED <<mvars, nextUuid, creq, ccreated, dvars, rvars>>

\* lines 283-285: one entry of image_paths; os.remove is called when the
\* path exists, and raises when the file is gone or the system refuses
RemoveImage(r) ==
    /\ cpc[r] = "rm_images"
    /\ cloc[r].i <= Len(cloc[r].image_paths)
    /\ LET image_path == cloc[r].image_paths[cloc[r].i]
       IN  \E oserr \in BOOLEAN :
              IF ~Exists(image_path)
              THEN /\ ~oserr
                   /\ files' = files
                   /\ cloc' = [cloc EXCEPT ![r].i = @ + 1]
                   /\ UNCHANGED <<cpc, cresp, cenv>>
              ELSE IF IsFile(image_path) /\ ~oserr
              THEN /\ files' = files \ {image_path}
                   /\ cloc' = [cloc EXCEPT ![r].i = @ + 1]
                   /\ cenv' = [cenv EXCEPT ![r].attempts = Append(@, image_path)]
                   /\ UNCHANGED <<cpc, cresp>>
              ELSE /\ files' = files
                   /\ cloc' = cloc
                   /\ cenv' = [cenv EXCEPT ![r].cleanup = "raised_image",
                                           ![r].attempts = Append(@, image_path)]
                   /\ CRespond(r, 500, "exception")
    /\ UNCHANGED <<mvars, nextUuid, creq, ccreated, dvars, rvars>>

\* lines 286-287, and the return: the plan file is removed when it exists,
\* and the request ends with the result of the try statement
RemovePlan(r) ==
    /\ cpc[r] = "rm_images"
    /\ cloc[r].i > Len(cloc[r].image_paths)
    /\ \E oserr \in BOOLEAN :
          IF ~Exists(cloc[r].img_sequence_file)
          THEN /\ ~oserr
               /\ files' = files
               /\ cenv' = [cenv EXCEPT ![r].cleanup = "ended"]
               /\ cresp' = [cresp EXCEPT ![r] = Outcome(r)]
          ELSE IF ~oserr
          THEN /\ files' = files \ {cloc[r].img_sequence_file}
               /\ cenv' = [cenv EXCEPT ![r].cleanup = "ended"]
               /\ cresp' = [cresp EXCEPT ![r] = Outcome(r)]
          ELSE /\ files' = files
               /\ cenv' = [cenv EXCEPT ![r].cleanup = "raised_plan"]
               /\ cresp' = [cresp EXCEPT ![r] = [status |-> 500, ret |-> "exception"]]
    /\ cpc' = [cpc EXCEPT ![r] = "done"]
    /\ UNCHANGED <<mvars, nextUuid, creq, cloc, ccreated, dvars, rvars>>

(***************************************************************************)
(* The route /resize-image, lines 349-378, and resize_image_exact, lines   *)
(* 30-78.                                                                  *)
(***************************************************************************)
Params ==
    {NoParam, [kind |-> "text", value |-> 0]}
        \cup {[kind |-> "int", value |-> v] : v \in -1..MaxSide}

\* missing: no url parameter; empty: url= ; malformed: a text that requests
\* takes for no URL (it raises MissingSchema, a RequestException)
UrlParams == {"missing", "empty", "malformed", "ok"}

\* request.args.get(key, type=int): None without the parameter and when
\* int() raises ValueError
IntArg(param) ==
    IF param.kind = "int" THEN [none |-> FALSE, value |-> param.value]
    ELSE [none |-> TRUE, value |-> 0]

\* not x, for x None or an int
Falsy(x) == x.none \/ x.value = 0

\* what the URL and the disk do to resize_image_exact:
\*   neterror   requests.get raises
\*   httperror  raise_for_status raises (status 4xx or 5xx)
\*   notimage   Image.open raises
\*   openerror  the output file cannot be opened by save
\*   image      the body is an image and the output file can be written
ExactOutcomes == {"neterror", "httperror", "notimage", "openerror", "image"}

\* lines 42-78; ImageOps.fit raises ValueError for a size that is not
\* positive, after the download and Image.open
resize_image_exact(outcome, new_width, new_height, uuid) ==
    LET output_filename == Append(Cwd, <<uuid, "_resized_exact.jpg">>)
    IN  IF outcome \in {"neterror", "httperror", "notimage"}
        THEN [ret |-> NoPath, made |-> {}]
        ELSE IF new_width <= 0 \/ new_height <= 0
        THEN [ret |-> NoPath, made |-> {}]
        ELSE IF outcome = "openerror"
        THEN [ret |-> NoPath, made |-> {}]
        ELSE [ret |-> output_filename, made |-> {output_filename}]

\* lines 361-370: the three parameters and their check
ResizeRequest ==
    /\ serving
    /\ rpc = "idle"
    /\ \E w \in Params, h \in Params, u \in UrlParams :
          /\ rreq' = [width |-> w, height |-> h, url |-> u, fetch |-> "none"]
          /\ IF Falsy(IntArg(w)) \/ Falsy(IntArg(h)) \/ u \in {"missing", "empty"}
             THEN /\ rresp' = [status |-> 400, ret |-> "invalid"]
                  /\ rpc' = "done"
             ELSE /\ rresp' = rresp
                  /\ rpc' = "exact"
    /\ UNCHANGED <<mvars, files, cvars, dvars, img>>

\* lines 372-378: resize_image_exact, then the 500 or send_file(result); the
\* program runs in its own directory, where send_file finds the file
ResizeExact ==
    /\ rpc = "exact"
    /\ \E o \in ExactOutcomes :
          /\ rreq.url = "malformed" => o = "neterror"
          /\ LET result == resize_image_exact(o, IntArg(rreq.width).value,
                                              IntArg(rreq.height).value,
                                              Uuid(nextUuid + 1))
             IN  /\ files' = files \cup result.made
                 /\ rreq' = [rreq EXCEPT !.fetch = o]
                 /\ rresp' = IF result.ret = NoPath
                             THEN [status |-> 500, ret |-> "failed"]
                             ELSE [status |-> 200, ret |-> "image"]
    /\ nextUuid' = nextUuid + 1
    /\ rpc' = "done"
    /\ UNCHANGED <<mvars, cpc, creq, cloc, cresp, cenv, ccreated, dvars, img>>

(***************************************************************************)
(* resize_image(image_path), lines 122-142: the even-dimension fixup.      *)
(***************************************************************************)
\* a dimension that grows by one whatever it is
EvenUpAlways(x) == x + 1

\* lines 135-138: if x % 2 != 0: x += 1
EvenUp(x) == IF x % 2 # 0 THEN x + 1 ELSE x

\* lines 130-142: the image is opened, resized to the corrected size and
\* saved over the file
FixupImage ==
    /\ img.width >= 1 /\ img.height >= 1
    /\ ~img.saved
    /\ img' = [img EXCEPT !.width = EvenUp(@), !.height = EvenUp(@),
                          !.saved = TRUE]
    /\ UNCHANGED <<mvars, files, cvars, dvars, rpc, rreq, rresp>>

(***************************************************************************)
(* Specifications.                                                         *)
(***************************************************************************)
InitCommon ==
    /\ nextUuid = 0
    /\ creq = [r \in ConvReqs |-> NoConvBody]
    /\ cloc = [r \in ConvReqs |-> NoLoc]
    /\ cresp = [r \in ConvReqs |-> NoResp]
    /\ cenv = [r \in ConvReqs |-> NoEnv]
    /\ ccreated = [r \in ConvReqs |-> {}]
    /\ dreq = [d \in DelReqs |-> NoBody]
    /\ dloc = [d \in DelReqs |-> <<>>]
    /\ dresp = [d \in DelReqs |-> NoResp]
    /\ dremoved = [d \in DelReqs |-> NoPath]
    /\ rreq = NoArgs
    /\ media = AnyMedia
    /\ rresp = NoResp

\* The program as it is: the module is executed, then a convert request is
\* served.
Init ==
    /\ InitCommon
    /\ serving = FALSE
    /\ resize_image = "normalizer"
    /\ files = {}
    /\ cpc = [r \in ConvReqs |-> IF r = "r1" THEN "idle" ELSE "off"]
    /\ dpc = [d \in DelReqs |-> "off"]
    /\ rpc = "off"
    /\ img = NoImage

Next ==
    \/ LoadModule
    \/ \E r \in ConvReqs :
          \/ ConvertStart(r)
          \/ FetchAudio(r)
          \/ FetchImage(r)
          \/ CheckImages(r)

Spec == Init /\ [][Next]_vars

\* convert_to_video with download_file calling the even-dimension fixup of
\* line 122, the definition that lines 172-174 name: the state of the module
\* before line 350 rebinds resize_image.  Under Spec no request passes line
\* 219, so the probe, the planner, the encoder and the finally clause are
\* exercised under this specification.
InitNormalizer ==
    /\ InitCommon
    /\ serving = TRUE
    /\ resize_image = "normalizer"
    /\ files = {}
    /\ cpc = [r \in ConvReqs |-> IF r = "r1" THEN "idle" ELSE "off"]
    /\ dpc = [d \in DelReqs |-> "off"]
    /\ rpc = "off"
    /\ img = NoImage

NextNormalizer ==
    \E r \in ConvReqs :
       \/ ConvertStart(r)
       \/ FetchAudio(r)
       \/ FetchImage(r)
       \/ CheckImages(r)
       \/ ProbeDuration(r)
       \/ PlanSequence(r)
       \/ WritePlan(r)
       \/ RunEncoder(r)
       \/ RemoveAudio(r)
       \/ RemoveImage(r)
       \/ RemovePlan(r)

SpecNormalizer == InitNormalizer /\ [][NextNormalizer]_vars

\* delete_video, served by the loaded module on any content of the videos
\* directory and of the directories above it
DeleteCandidates ==
    {Append(VideoDir, <<"a">>), Append(VideoDir, <<"a", "_", "a">>),
     Append(Cwd, <<"a">>), Append(Root, <<"a">>)}

InitDelete ==
    /\ InitCommon
    /\ serving = TRUE
    /\ resize_image = "route"
    /\ files \in SUBSET DeleteCandidates
    /\ cpc = [r \in ConvReqs |-> "off"]
    /\ dpc = [d \in DelReqs |-> IF d = "d1" THEN "idle" ELSE "off"]
    /\ rpc = "off"
    /\ img = NoImage

NextDelete == \E d \in DelReqs : DeleteStep(d)

SpecDelete == InitDelete /\ [][NextDelete]_vars

\* Two convert requests served at the same time (Flask's development server
\* of line 384 handles each request in a thread of its own), with the fixup
\* of line 122 in effect so that both reach the finally clause.  The requests
\* are small: at most one image URL, an audio of 4 seconds, URLs that answer
\* with a written body or with a status other than 200, and a disk on which
\* no open, write or removal is refused.
SmallRequests ==
    \A r \in ConvReqs :
        /\ creq[r].n <= 1
        /\ cenv[r].audio \in {"none", "notimage", "non200"}
        /\ \A k \in 1..Len(cenv[r].images) : cenv[r].images[k] \in {"image", "non200"}
        /\ cenv[r].probe # "raised"
        /\ cloc[r].audio_duration \in {-1, 4 * TicksPerSecond}
        /\ cloc[r].result # "raise"
        /\ cenv[r].encoder \in {"notrun", "exit0", "nonzero"}
        /\ cenv[r].cleanup \in {"notrun", "ended"}

InitConcurrent ==
    /\ InitCommon
    /\ serving = TRUE
    /\ resize_image = "normalizer"
    /\ files = {}
    /\ cpc = [r \in ConvReqs |-> "idle"]
    /\ dpc = [d \in DelReqs |-> "off"]
    /\ rpc = "off"
    /\ img = NoImage

NextConcurrent ==
    \E r \in ConvReqs :
       \/ ConvertStart(r) /\ SmallRequests'
       \/ FetchAudio(r) /\ SmallRequests'
       \/ FetchImage(r) /\ SmallRequests'
       \/ CheckImages(r) /\ SmallRequests'
       \/ ProbeDuration(r) /\ SmallRequests'
       \/ PlanSequence(r) /\ SmallRequests'
       \/ WritePlan(r) /\ SmallRequests'
       \/ RunEncoder(r) /\ SmallRequests'
       \/ RemoveAudio(r) /\ SmallRequests'
       \/ RemoveImage(r) /\ SmallRequests'
       \/ RemovePlan(r) /\ SmallRequests'

SpecConcurrent == InitConcurrent /\ [][NextConcurrent]_vars

\* one request to /resize-image, served by the loaded module
InitResize ==
    /\ InitCommon
    /\ serving = TRUE
    /\ resize_image = "route"
    /\ files = {}
    /\ cpc = [r \in ConvReqs |-> "off"]
    /\ dpc = [d \in DelReqs |-> "off"]
    /\ rpc = "idle"
    /\ img = NoImage

NextResize == ResizeRequest \/ ResizeExact

SpecResize == InitResize /\ [][NextResize]_vars

\* the fixup of line 122 on an image file of any size up to MaxSide
InitFixup ==
    /\ InitCommon
    /\ serving = FALSE
    /\ resize_image = "normalizer"
    /\ files = {}
    /\ cpc = [r \in ConvReqs |-> "off"]
    /\ dpc = [d \in DelReqs |-> "off"]
    /\ rpc = "off"
    /\ \E w \in 1..MaxSide, h \in 1..MaxSide :
          img = [width |-> w, height |-> h, saved |-> FALSE, orig |-> <<w, h>>]

NextFixup == FixupImage

SpecFixup == InitFixup /\ [][NextFixup]_vars

\* The probe on any diagnostic output of up to two lines, hours and
\* minutes included.  A convert request stands before line 222 with its
\* audio and one image fetched (a state that SpecNormalizer reaches), and
\* the media tool's answer for that audio file is given.
WideProbeLines ==
    {OtherLine, GarbledLine}
        \cup {DurationLine(h, m, s) : h \in 0..1, m \in 0..1, s \in 0..MaxDur}

WideProbeOutputs ==
    {<<>>} \cup {<<l>> : l \in WideProbeLines}
           \cup {<<l1, l2>> : l1 \in WideProbeLines, l2 \in WideProbeLines}

BeforeProbe ==
    LET audio == Append(UploadDir, <<Uuid(1), ".", "mp3">>)
        image == Append(UploadDir, <<Uuid(2), ".", "jpg">>)
    IN  /\ nextUuid = 2
        /\ files = {audio, image}
        /\ cpc = [r \in ConvReqs |-> IF r = "r1" THEN "probe" ELSE "off"]
        /\ creq = [r \in ConvReqs |->
                     IF r = "r1"
                     THEN [audio_url |-> TRUE, image_urls |-> TRUE, n |-> 1]
                     ELSE NoConvBody]
        /\ cloc = [r \in ConvReqs |->
                     IF r = "r1"
                     THEN [NoLoc EXCEPT !.audio_path = audio,
                                        !.image_paths = <<image>>, !.i = 2]
                     ELSE NoLoc]
        /\ cresp = [r \in ConvReqs |-> NoResp]
        /\ cenv = [r \in ConvReqs |->
                     IF r = "r1"
                     THEN [NoEnv EXCEPT !.audio = "notimage", !.images = <<"image">>,
                                        !.returned = <<image>>, !.fetched = <<image>>]
                     ELSE NoEnv]
        /\ ccreated = [r \in ConvReqs |-> IF r = "r1" THEN {audio, image} ELSE {}]

InitProbe ==
    /\ BeforeProbe
    /\ serving = TRUE
    /\ resize_image = "normalizer"
    /\ \E started \in BOOLEAN, stderr \in WideProbeOutputs :
          media = [fixed |-> TRUE, started |-> started, stderr |-> stderr]
    /\ dpc = [d \in DelReqs |-> "off"]
    /\ dreq = [d \in DelReqs |-> NoBody]
    /\ dloc = [d \in DelReqs |-> <<>>]
    /\ dresp = [d \in DelReqs |-> NoResp]
    /\ dremoved = [d \in DelReqs |-> NoPath]
    /\ rpc = "off"
    /\ rreq = NoArgs
    /\ rresp = NoResp
    /\ img = NoImage

NextProbe == \E r \in ConvReqs : ProbeDuration(r)

SpecProbe == InitProbe /\ [][NextProbe]_vars

\* Two delete requests served at the same time, both naming, by a filename
\* of at most two characters, the same file of the videos directory, which
\* exists when they arrive.
RaceTarget == Append(VideoDir, <<"a">>)

SameVideo ==
    \A d \in DelReqs :
        dpc[d] # "idle" =>
            /\ dreq[d].has
            /\ Len(dreq[d].filename) <= 2
            /\ VideoPath(dloc[d]) = RaceTarget

InitDeleteRace ==
    /\ InitCommon
    /\ serving = TRUE
    /\ resize_image = "route"
    /\ \E others \in SUBSET DeleteCandidates : files = others \cup {RaceTarget}
    /\ cpc = [r \in ConvReqs |-> "off"]
    /\ dpc = [d \in DelReqs |-> "idle"]
    /\ rpc = "off"
    /\ img = NoImage

NextDeleteRace ==
    \E d \in DelReqs :
       \/ DeleteStart(d) /\ SameVideo'
       \/ DeleteExists(d) /\ SameVideo'
       \/ DeleteIsFile(d) /\ SameVideo'
       \/ DeleteRemove(d) /\ SameVideo'

SpecDeleteRace == InitDeleteRace /\ [][NextDeleteRace]_vars

(***************************************************************************)
(* The claims.                                                             *)
(***************************************************************************)
Done(r) == cpc[r] = "done"

UploadsLeft(r) == {p \in ccreated[r] : InUploads(p) /\ p \in files}
VideosMade(r) == {p \in ccreated[r] : InVideos(p)}

\* C1: once a convert request has returned its response, whatever the exit
\* path, none of the files it created in the uploads directory (the audio
\* file, the image files, the sequence-plan file) exists any more.
C1_NoUploadLeftAfterResponse ==
    \A r \in ConvReqs : Done(r) => UploadsLeft(r) = {}

\* C2: a convert request whose audio was fetched and for which no image
\* download gave a result (image_urls empty, or every download without
\* result) is answered 400, has created no file in the videos directory and
\* leaves no file, the audio file included, in the uploads directory.
C2_NoImageGives400AndNoFile ==
    \A r \in ConvReqs :
        (Done(r) /\ creq[r].audio_url /\ creq[r].image_urls
            /\ cloc[r].audio_path # NoPath
            /\ Len(cenv[r].images) = creq[r].n
            /\ cloc[r].image_paths = <<>>)
        => /\ cresp[r].status = 400
           /\ VideosMade(r) = {}
           /\ UploadsLeft(r) = {}

\* what went wrong outside the handler's fetches: the probe raised or gave
\* zero, the plan file could not be written, the encoder did not exit with
\* status 0, a removal of the finally clause raised
LaterStepFailed(r) ==
    \/ cenv[r].probe = "raised"
    \/ cenv[r].probe = "value" /\ cloc[r].audio_duration = 0
    \/ cenv[r].encoder \in {"nonzero", "oserror"}
    \/ cloc[r].result = "raise"
    \/ cenv[r].cleanup \notin {"notrun", "ended"}

\* C3: a convert request whose audio URL answers 200 and is written, with at
\* least one image URL that answers 200 with an image that is written, a
\* non-zero probed duration and an encoder that exits with status 0, is
\* answered with the video: the image fetch returned its path, so the image
\* list that reaches the planner is not empty.
C3_FetchedImageGivesVideo ==
    \A r \in ConvReqs :
        (Done(r) /\ creq[r].audio_url /\ creq[r].image_urls
            /\ Written(cenv[r].audio)
            /\ (\E k \in 1..Len(cenv[r].images) : cenv[r].images[k] = "image")
            /\ ~LaterStepFailed(r))
        => /\ cresp[r] = [status |-> 200, ret |-> "video"]
           /\ cenv[r].fetched # <<>>

\* the first step of a finished request that failed, in the order of the
\* handler: the field check, the audio fetch, the image fetches, the probe's
\* zero, the encoder's exit status
FirstFailure(r) ==
    IF ~creq[r].audio_url \/ ~creq[r].image_urls THEN "missing"
    ELSE IF cloc[r].audio_path = NoPath THEN "noaudio"
    ELSE IF Len(cenv[r].images) = creq[r].n /\ cloc[r].image_paths = <<>>
         THEN "noimages"
    ELSE IF cenv[r].probe = "value" /\ cloc[r].audio_duration = 0 THEN "zeroduration"
    ELSE IF cenv[r].encoder = "nonzero" THEN "encoder"
    ELSE "none"

\* C4: the status of a failed convert request follows from its first failing
\* step: a missing field, no audio and no image give 400, a zero duration
\* and a non-zero exit of the encoder give 500; none of them gives the
\* video.
C4_StatusOfFirstFailingStep ==
    \A r \in ConvReqs :
        Done(r) =>
            LET cause == FirstFailure(r)
            IN  /\ cause \in {"missing", "noaudio", "noimages"} => cresp[r].status = 400
                /\ cause \in {"zeroduration", "encoder"} => cresp[r].status = 500
                /\ cause # "none" => cresp[r].ret # "video"

\* C4's case: a request that got as far as the encoder, which exited with a
\* non-zero status, and was answered 500
C4_Witness ==
    \E r \in ConvReqs :
        /\ Done(r)
        /\ FirstFailure(r) = "encoder"
        /\ cresp[r] = [status |-> 500, ret |-> "encerr"]

\* C5: cleanup does not mask the outcome: when a removal of the finally
\* clause fails, the request is still answered with the result of the try
\* statement (the video, or the 500 of the encoder), no exception leaves the
\* cleanup, and when it is the audio file that cannot be removed the image
\* files and the sequence-plan file are removed all the same.
C5_CleanupKeepsOutcome ==
    \A r \in ConvReqs :
        (Done(r) /\ cloc[r].result \in {"video", "encerr"})
        => /\ cresp[r] = Outcome(r)
           /\ cenv[r].cleanup = "raised_audio" =>
                  /\ \A k \in 1..Len(cloc[r].image_paths) :
                        cloc[r].image_paths[k] \notin files
                  /\ cloc[r].img_sequence_file \notin files

\* the planned display time, in ticks: the durations the plan file lists
RECURSIVE PlannedTicks(_)
PlannedTicks(text) ==
    IF text = <<>> THEN 0
    ELSE Head(text).duration * TicksPerSecond + PlannedTicks(Tail(text))

PlanWritten(r) == cenv[r].fetched # <<>> /\ cloc[r].sequence_text # <<>>

ImagesCover(r) ==
    Len(cenv[r].fetched) * 3 * TicksPerSecond >= cloc[r].audio_duration

\* C6: for n >= 1 fetched images and a duration d > 0, the planned list is
\* the fetched list repeated floor(d/3)+1 times in order when 3*n < d, and
\* the fetched list itself otherwise; every entry of the plan file lasts 3
\* seconds and the file lists the entries in the order of the planned list.
C6_PlannedListAndFile ==
    \A r \in ConvReqs :
        PlanWritten(r) =>
            LET fetched == cenv[r].fetched
                n == Len(fetched)
                d == cloc[r].audio_duration
                planned == cloc[r].image_paths
                text == cloc[r].sequence_text
            IN  /\ n >= 1 /\ d > 0
                /\ ~ImagesCover(r) =>
                      /\ Len(planned) = n * ((d \div (3 * TicksPerSecond)) + 1)
                      /\ \A k \in 1..Len(planned) :
                            planned[k] = fetched[((k - 1) % n) + 1]
                /\ ImagesCover(r) => planned = fetched
                /\ Len(text) = Len(planned)
                /\ \A k \in 1..Len(text) :
                      text[k] = [file |-> planned[k], duration |-> 3]

\* C6's cases: 2 images and 10 seconds give 8 entries; the list is also
\* left as it is when it covers the duration
C6_Witness ==
    \E r \in ConvReqs :
        /\ PlanWritten(r)
        /\ Len(cenv[r].fetched) = 2
        /\ cloc[r].audio_duration = 10 * TicksPerSecond
        /\ Len(cloc[r].sequence_text) = 8

EncoderInvoked(r) == cenv[r].encoder # "notrun"

\* C7: whenever the encoder is invoked, the planned display time (3 seconds
\* for each entry of the plan) is at least the probed audio duration.
C7_PlanCoversAudio ==
    \A r \in ConvReqs :
        EncoderInvoked(r) =>
            PlannedTicks(cloc[r].sequence_text) >= cloc[r].audio_duration

\* C7's case: the encoder has run on a plan that the planner had to repeat
C7_Witness ==
    \E r \in ConvReqs :
        /\ EncoderInvoked(r)
        /\ ~ImagesCover(r)
        /\ Len(cloc[r].sequence_text) > Len(cenv[r].fetched)

Excess(r) == PlannedTicks(cloc[r].sequence_text) - cloc[r].audio_duration

\* C8 as stated: when the planner repeats the list (3*image_count <
\* duration), the planned display time exceeds the audio duration by at most
\* 3*image_count - 1 seconds.
C8_ExcessAtMost3nMinus1 ==
    \A r \in ConvReqs :
        (PlanWritten(r) /\ ~ImagesCover(r))
        => Excess(r) <= (3 * Len(cenv[r].fetched) - 1) * TicksPerSecond

\* C8 amended: when the planner repeats the list, the planned display time
\* exceeds the audio duration, by at most 3*image_count +
\* (image_count - 1)*duration seconds.
C8_ExcessBound ==
    \A r \in ConvReqs :
        (PlanWritten(r) /\ ~ImagesCover(r))
        => LET n == Len(cenv[r].fetched)
           IN  /\ Excess(r) > 0
               /\ Excess(r) <= 3 * n * TicksPerSecond
                               + (n - 1) * cloc[r].audio_duration

\* C8's case: 2 images repeated for 10 seconds are planned for 24 seconds,
\* 14 seconds more than the audio
C8_Witness ==
    \E r \in ConvReqs :
        /\ PlanWritten(r)
        /\ ~ImagesCover(r)
        /\ Len(cenv[r].fetched) = 2
        /\ cloc[r].audio_duration = 10 * TicksPerSecond
        /\ Excess(r) = 14 * TicksPerSecond

\* the filename holds a "../" segment
Traversal(filename) ==
    \E i \in 1..(Len(filename) - 2) :
        filename[i] = "." /\ filename[i + 1] = "." /\ filename[i + 2] = "/"

DDone(d) == dpc[d] = "done"

\* the regular files there were before the request's own removal
FilesBefore(d) ==
    files \cup (IF dremoved[d] = NoPath THEN {} ELSE {dremoved[d]})

\* C9 as stated: a delete request whose filename holds "../" segments
\* removes no file outside the videos directory and is answered 400 or 404,
\* never 200.
C9_TraversalRefused ==
    \A d \in DelReqs :
        (DDone(d) /\ dreq[d].has /\ Traversal(dreq[d].filename))
        => /\ dremoved[d] # NoPath => InVideos(dremoved[d])
           /\ dresp[d].status \in {400, 404}

\* C9 amended: a delete request whose filename holds "../" segments removes
\* no file outside the videos directory.  It is answered 404 or 400 when the
\* sanitized name is no regular file of the videos directory; otherwise
\* that file, which is not the file the filename literally names, is what
\* os.remove is given: 200 when it is removed, 500 when the removal raises.
C9_TraversalStaysInVideos ==
    \A d \in DelReqs :
        (DDone(d) /\ dreq[d].has /\ Traversal(dreq[d].filename))
        => LET target == Append(VideoDir, dloc[d])
           IN  /\ dremoved[d] # NoPath => InVideos(dremoved[d])
               /\ dresp[d].status \in {400, 404} <=> target \notin FilesBefore(d)
               /\ dresp[d].status \in {200, 500} <=> target \in FilesBefore(d)
               /\ dresp[d].status = 200 <=> dremoved[d] = target
               /\ target # VideoPath(dreq[d].filename)

\* C9's case: "../a" is answered 200 after videos/a was removed, and the
\* file a of the directory above, which the filename names, is still there
C9_Witness ==
    \E d \in DelReqs :
        /\ DDone(d) /\ dreq[d].has /\ Traversal(dreq[d].filename)
        /\ dresp[d].status = 200
        /\ InVideos(dremoved[d])
        /\ VideoPath(dreq[d].filename) \in files
        /\ ~InVideos(VideoPath(dreq[d].filename))

\* the answers of a finished delete request, by what its sanitized path was
C10_Statuses ==
    \A d \in DelReqs :
        DDone(d) =>
            LET p == VideoPath(dloc[d])
                before == FilesBefore(d)
            IN  /\ ~dreq[d].has => dresp[d].status = 400
                /\ (dreq[d].has /\ p \notin Dirs \cup before) => dresp[d].status = 404
                /\ (dreq[d].has /\ p \in Dirs) => dresp[d].status = 400
                /\ (dreq[d].has /\ p \in before) => dresp[d].status \in {200, 500}
                /\ dresp[d].status = 200 => (dremoved[d] = p /\ p \notin files)
                /\ dresp[d].status = 500 => p \in files
                /\ dresp[d].status # 200 => dremoved[d] = NoPath

\* a step changes the files only by removing the file of a request that is
\* answered 200 in that step
C10_OnlyA200Removes ==
    files' # files =>
        \E d \in DelReqs :
            /\ dresp[d].status = 0 /\ dresp'[d].status = 200
            /\ files' = files \ {VideoPath(dloc[d])}
            /\ VideoPath(dloc[d]) \in files

\* C10: a delete request is answered 400 without the filename field, 404
\* when the sanitized path does not exist, 400 when it exists and is no
\* regular file, 200 when the file was removed and 500 when the removal
\* raised; after a 200 the file is gone, and a request answered otherwise
\* has changed nothing in the videos directory.
C10_DeleteStatuses == [] C10_Statuses /\ [][C10_OnlyA200Removes]_vars

\* C10's case: the file was there, the request was answered 200 and the
\* file is gone
C10_Witness ==
    \E d \in DelReqs :
        /\ DDone(d) /\ dresp[d].status = 200
        /\ InVideos(dremoved[d]) /\ dremoved[d] \notin files

\* a download that ended without a written body: the request failed, the
\* status was not 200, or the file could not be opened or written
FetchFailed(outcome) ==
    outcome \in {"neterror", "non200", "openerror", "writeerror"}

\* C11: download_file returns no result on a network error, a status other
\* than success and a file that cannot be written, and returns the local
\* path for every successful response whose body was written: checked on the
\* audio fetch and on every image fetch of a convert request.
C11_FetchReturnsPathWhenWritten ==
    \A r \in ConvReqs :
        /\ FetchFailed(cenv[r].audio) => cloc[r].audio_path = NoPath
        /\ Written(cenv[r].audio) => cloc[r].audio_path # NoPath
        /\ \A k \in 1..Len(cenv[r].images) :
              /\ FetchFailed(cenv[r].images[k]) => cenv[r].returned[k] = NoPath
              /\ Written(cenv[r].images[k]) => cenv[r].returned[k] # NoPath

\* the results of the image fetches that are paths, in the order of image_urls
RECURSIVE SelectPaths(_)
SelectPaths(returned) ==
    IF returned = <<>> THEN <<>>
    ELSE IF Head(returned) = NoPath THEN SelectPaths(Tail(returned))
    ELSE <<Head(returned)>> \o SelectPaths(Tail(returned))

\* the request has left the loop over image_urls
PastImageLoop(r) ==
    /\ cloc[r].audio_path # NoPath
    /\ cpc[r] \notin {"off", "idle", "audio", "images"}

\* C12: an image fetch without result does not end the request: while the
\* loop runs and until the planner, image_paths is the subsequence of the
\* fetch results that are paths, in the order of image_urls; after the loop
\* the request goes on to the probe when that subsequence is not empty and
\* is answered 400 "no images" only when it is empty.
C12_ImageListIsFetchedSubsequence ==
    \A r \in ConvReqs :
        LET paths == SelectPaths(cenv[r].returned)
        IN  /\ cpc[r] \in {"images", "probe", "plan"} => cloc[r].image_paths = paths
            /\ cpc[r] = "images" => cresp[r] = NoResp
            /\ PastImageLoop(r) =>
                  /\ Len(cenv[r].returned) = creq[r].n
                  /\ cenv[r].fetched = paths
                  /\ paths # <<>> => (cpc[r] = "probe" \/ cenv[r].probe # "notrun")
                  /\ paths = <<>> => cresp[r] = [status |-> 400, ret |-> "noimages"]

\* C12's case: the first of two image fetches gave no result, the second
\* gave a path, and the request went on to the probe with that one image
C12_Witness ==
    \E r \in ConvReqs :
        /\ Len(cenv[r].returned) = 2
        /\ cenv[r].returned[1] = NoPath
        /\ cenv[r].returned[2] # NoPath
        /\ cenv[r].fetched = <<cenv[r].returned[2]>>
        /\ cenv[r].probe = "value"

RECURSIVE Range(_)
Range(seq) == IF seq = <<>> THEN {} ELSE {Head(seq)} \cup Range(Tail(seq))

\* the paths a request holds in its local variables
Names(r) ==
    ({cloc[r].audio_path, cloc[r].video_path, cloc[r].img_sequence_file}
        \cup Range(cloc[r].image_paths)) \ {NoPath}

\* the request is between its audio fetch and its first removal: it still
\* reads its audio file and its image files
InFlight(r) ==
    cpc[r] \in {"images", "probe", "plan", "write", "encode", "rm_audio"}

\* no two requests hold or have created a file of the same name, and the
\* upload files of a request in flight are there
C13_OwnFiles ==
    \A r \in ConvReqs :
        /\ \A q \in ConvReqs \ {r} :
              /\ Names(r) \cap Names(q) = {}
              /\ Names(r) \cap ccreated[q] = {}
              /\ ccreated[r] \cap ccreated[q] = {}
        /\ InFlight(r) =>
              /\ cloc[r].audio_path \in files
              /\ Range(cloc[r].image_paths) \subseteq files

\* a step that removes a file is a step of one request, the file is one
\* that request created in the uploads directory, and no other request
\* holds its name
C13_RemovesOwnUploads ==
    \A p \in files \ files' :
        /\ InUploads(p)
        /\ ~InVideos(p)
        /\ \E r \in ConvReqs :
              /\ cpc[r] \in {"rm_audio", "rm_images"}
              /\ <<cpc'[r], cloc'[r]>> # <<cpc[r], cloc[r]>>
              /\ p \in ccreated[r]
              /\ \A q \in ConvReqs \ {r} :
                    /\ p \notin Names(q)
                    /\ <<cpc'[q], cloc'[q]>> = <<cpc[q], cloc[q]>>

\* C13: convert requests served at the same time do not interfere: each
\* request writes, reads and removes only the upload files and the plan file
\* it created itself, under names no other request has; the cleanup of one
\* request removes no file that another request in flight uses and no file
\* of the videos directory.
C13_ConcurrentConvertsDoNotInterfere ==
    [] C13_OwnFiles /\ [][C13_RemovesOwnUploads]_vars

\* C13's case: r2 fetched its audio first and is still before the encoder
\* with its audio and image on disk, while r1, which started after it, has
\* been through its whole cleanup
C13_Witness ==
    /\ cloc["r2"].audio_path = Append(UploadDir, <<Uuid(1), ".", "mp3">>)
    /\ cpc["r2"] = "encode"
    /\ cloc["r2"].image_paths # <<>>
    /\ Names("r2") \ {cloc["r2"].video_path} \subseteq files
    /\ cpc["r1"] = "done"
    /\ cenv["r1"].cleanup = "ended"
    /\ Len(cloc["r1"].image_paths) = 2
    /\ ccreated["r1"] \cap files = {cloc["r1"].video_path}

\* a width or height that is missing, no integer or not positive
ParamInvalid(param) == param.kind # "int" \/ param.value <= 0

\* C14: a resize-image request is answered 400 whenever width, height or url
\* is missing or invalid (a width or height that is no integer or is not
\* positive included), 500 whenever the download or the processing fails,
\* and with the image only when the three parameters are valid and the
\* download and the processing succeeded.
C14_ResizeStatuses ==
    rpc = "done" =>
        LET bad == \/ ParamInvalid(rreq.width)
                   \/ ParamInvalid(rreq.height)
                   \/ rreq.url \in {"missing", "empty"}
        IN  /\ bad => rresp.status = 400
            /\ (~bad /\ rreq.fetch # "image") => rresp.status = 500
            /\ rresp.status = 200 <=> (~bad /\ rreq.fetch = "image")

\* C15: for an image of width w >= 1 and height h >= 1, the image that the
\* even-dimension fixup saves has an even width and an even height, its
\* width is w or w + 1 and its height is h or h + 1, and a dimension that
\* was even is unchanged.
C15_FixupGivesEvenSize ==
    img.saved =>
        LET w == img.orig[1]
            h == img.orig[2]
        IN  /\ w >= 1 /\ h >= 1
            /\ img.width % 2 = 0 /\ img.height % 2 = 0
            /\ img.width \in {w, w + 1} /\ img.height \in {h, h + 1}
            /\ w % 2 = 0 => img.width = w
            /\ h % 2 = 0 => img.height = h

\* C15's case: an image of 3 by 4 was saved as 4 by 4
C15_Witness ==
    /\ img.saved
    /\ img.orig = <<3, 4>>
    /\ img.width = 4 /\ img.height = 4

\* the place of a step in the handler's text
Rank(pc) ==
    CASE pc = "off" -> 0
      [] pc = "idle" -> 0
      [] pc = "audio" -> 1
      [] pc = "images" -> 2
      [] pc = "probe" -> 3
      [] pc = "plan" -> 4
      [] pc = "write" -> 5
      [] pc = "encode" -> 6
      [] pc = "rm_audio" -> 7
      [] pc = "rm_images" -> 8
      [] pc = "done" -> 9

\* the encoder has run only on a fetched audio, at least one fetched image,
\* a probed duration that is not zero and a written plan
C16_EncoderAfter ==
    \A r \in ConvReqs :
        EncoderInvoked(r) =>
            /\ cloc[r].audio_path # NoPath
            /\ Len(cenv[r].images) = creq[r].n
            /\ cenv[r].fetched # <<>>
            /\ cenv[r].probe = "value" /\ cloc[r].audio_duration > 0
            /\ cloc[r].sequence_text # <<>>

\* one step of a request: it moves forward in the handler's text; it stays
\* where it is only inside the two loops, one entry further; the audio
\* fetch, the fetch of the i-th image URL, the probe and the encoder each
\* happen at their own place and, the image fetches aside, once; files are
\* removed by the cleanup only; a request that was answered does nothing
C16_Step ==
    \A r \in ConvReqs :
        /\ Rank(cpc'[r]) >= Rank(cpc[r])
        /\ (cpc'[r] = cpc[r] /\ <<cloc'[r], cenv'[r]>> # <<cloc[r], cenv[r]>>) =>
              /\ cpc[r] \in {"images", "rm_images"}
              /\ cloc'[r].i = cloc[r].i + 1
        /\ cenv'[r].audio # cenv[r].audio =>
              cpc[r] = "audio" /\ cenv[r].audio = "none"
        /\ cenv'[r].images # cenv[r].images =>
              /\ cpc[r] = "images"
              /\ Len(cenv'[r].images) = Len(cenv[r].images) + 1
              /\ Len(cenv'[r].images) = cloc[r].i
              /\ cloc[r].i <= creq[r].n
        /\ cenv'[r].probe # cenv[r].probe =>
              cpc[r] = "probe" /\ cenv[r].probe = "notrun"
        /\ cloc'[r].sequence_text # cloc[r].sequence_text =>
              cpc[r] = "write" /\ cloc[r].sequence_text = <<>>
        /\ cenv'[r].encoder # cenv[r].encoder =>
              cpc[r] = "encode" /\ cenv[r].encoder = "notrun"
        /\ (ccreated[r] \cap files) \ files' # {} =>
              cpc[r] \in {"rm_audio", "rm_images"}
        /\ cpc[r] = "done" =>
              <<cpc'[r], cloc'[r], cenv'[r], cresp'[r], ccreated'[r]>>
                  = <<cpc[r], cloc[r], cenv[r], cresp[r], ccreated[r]>>

\* C16: within a convert request the steps happen in the order of the
\* handler and at most once each: the audio fetch, one fetch for each image
\* URL in the order of the list, the probe, the planner and the plan file,
\* the encoder, the cleanup.  The encoder runs only after the audio and at
\* least one image were fetched and a duration that is not zero was probed;
\* the media tool runs at most twice (one probe, one encoder run); after a
\* step has failed no fetch, probe or encoder run is started again.
C16_StepsInOrderOnce == [] C16_EncoderAfter /\ [][C16_Step]_vars

\* C16's case: a request with two image URLs that went through every step,
\* the cleanup included, and was answered with the video
C16_Witness ==
    \E r \in ConvReqs :
        /\ Done(r)
        /\ Len(cenv[r].images) = 2
        /\ cenv[r].probe = "value"
        /\ cenv[r].encoder = "exit0"
        /\ cenv[r].cleanup = "ended"
        /\ cresp[r] = [status |-> 200, ret |-> "video"]

\* the lines of the output that hold the marker, and those among them with
\* a well-formed value
MarkedLines(stderr) == SelectSeq(stderr, LAMBDA line : line.kind # "other")
WellFormedLines(stderr) == SelectSeq(stderr, LAMBDA line : line.kind = "duration")

\* C17: when the media tool has printed its output, the probe returns
\* hours*3600 + minutes*60 + seconds of the first line that holds the
\* duration marker, and returns zero, raising nothing, whenever no line of
\* the output holds a well-formed duration; a zero result ends the convert
\* request with status 500 and the encoder is not run.
C17_ProbeValueOrZero ==
    \A r \in ConvReqs :
        (media.fixed /\ media.started /\ cenv[r].probe # "notrun") =>
            LET marked == MarkedLines(media.stderr)
            IN  /\ (marked # <<>> /\ Head(marked).kind = "duration") =>
                      /\ cenv[r].probe = "value"
                      /\ cloc[r].audio_duration =
                             (Head(marked).hours * 3600 + Head(marked).minutes * 60)
                                 * TicksPerSecond + Head(marked).seconds
                /\ WellFormedLines(media.stderr) = <<>> =>
                      /\ cenv[r].probe = "value"
                      /\ cloc[r].audio_duration = 0
                /\ (cenv[r].probe = "value" /\ cloc[r].audio_duration = 0) =>
                      /\ Done(r)
                      /\ cresp[r] = [status |-> 500, ret |-> "zeroduration"]
                      /\ ~EncoderInvoked(r)

BothDeletesDone == \A d \in DelReqs : DDone(d)

\* the requests that were answered 200
Winners == {d \in DelReqs : dresp[d].status = 200}

\* C18 as stated, for removals that the system does not refuse: of two
\* delete requests naming the same existing video file, exactly one is
\* answered 200 and the other 404 or 500, the file is removed once and is
\* absent afterwards.
C18_Other404Or500 ==
    (BothDeletesDone /\ RaceTarget \notin files) =>
        /\ Cardinality(Winners) = 1
        /\ \A d \in DelReqs \ Winners : dresp[d].status \in {404, 500}
        /\ \A d \in DelReqs : dremoved[d] = RaceTarget <=> d \in Winners

\* the answers of the two requests once both have ended
C18_RaceStatuses ==
    BothDeletesDone =>
        /\ Cardinality(Winners) <= 1
        /\ \A d \in DelReqs \ Winners :
              /\ dresp[d].status \in {400, 404, 500}
              /\ dremoved[d] = NoPath
        /\ \A d \in Winners : dremoved[d] = RaceTarget
        /\ RaceTarget \notin files <=> Winners # {}
        /\ RaceTarget \in files => \A d \in DelReqs : dresp[d].status = 500

\* a step changes the files only by removing the file the requests name
C18_OnlyTheTarget ==
    files' # files => (RaceTarget \in files /\ files' = files \ {RaceTarget})

\* C18 amended: of two delete requests naming the same existing video file,
\* under any interleaving, at most one is answered 200 and the file is
\* removed at most once; when the system refuses no removal exactly one is
\* answered 200, the file is absent afterwards and the other request is
\* answered 404 (it looked after the removal), 400 (the file went between
\* its existence test and its file test) or 500 (the file went before its
\* own removal); when the removal is refused both are answered 500 and the
\* file stays.  No other file is affected.
C18_RaceRemovesAtMostOnce == [] C18_RaceStatuses /\ [][C18_OnlyTheTarget]_vars

\* C18's case: one request removed the file and was answered 200, the
\* other had seen the file exist and was answered 400 by the file test
C18_Witness ==
    /\ BothDeletesDone
    /\ dresp["d1"] = [status |-> 200, ret |-> "deleted"]
    /\ dresp["d2"] = [status |-> 400, ret |-> "notfile"]
    /\ dremoved["d1"] = RaceTarget
    /\ RaceTarget \notin files

\* the planner has repeated the list of fetched images
Repeated(r) ==
    /\ Rank(cpc[r]) > Rank("plan")
    /\ Len(cloc[r].image_paths) > Len(cenv[r].fetched)

\* the loop over image_paths of the finally clause has run to its end
ImageLoopEnded(r) == cenv[r].cleanup \in {"ended", "raised_plan"}

\* C19: when the planner has repeated the image list, the cleanup goes
\* through the repeated list and gives each distinct image file to os.remove
\* once: never a path that is no longer there, so a removal error is never
\* due to a duplicate, and when the loop has ended no image file is left.
C19_DuplicatesRemovedOnce ==
    \A r \in ConvReqs :
        Repeated(r) =>
            LET attempts == cenv[r].attempts
                images == Range(cenv[r].fetched)
            IN  /\ \A j \in 1..Len(attempts), k \in 1..Len(attempts) :
                      attempts[j] = attempts[k] => j = k
                /\ Range(attempts) \subseteq images
                /\ cenv[r].cleanup = "raised_image" =>
                      attempts[Len(attempts)] \in files
                /\ ImageLoopEnded(r) =>
                      /\ Range(attempts) = images
                      /\ images \cap files = {}

\* C19's case: two images planned four times each, the cleanup went through
\* the eight entries, os.remove was given two paths and no image is left
C19_Witness ==
    \E r \in ConvReqs :
        /\ Repeated(r)
        /\ Done(r)
        /\ cenv[r].cleanup = "ended"
        /\ Len(cloc[r].image_paths) = 8
        /\ Len(cenv[r].attempts) = 2
        /\ Range(cenv[r].fetched) \cap files = {}

====
